---------------------------- MODULE Spec2Model ----------------------------
(***************************************************************************)
(* A model of node-pg-copy-streams: the copy-both duplex stream            *)
(* (src/copy-both.js) and the copy-to transform stream (src/copy-to.js).   *)
(*                                                                         *)
(* JavaScript runs every handler to completion, so each handler is one     *)
(* atomic action.  A handler's synchronous call chain is written as        *)
(* operators over a record w holding the whole state ("world"); W gathers  *)
(* the variables into that record and Install(w) assigns the primed        *)
(* variables from it.  Bytes are naturals 0..255, buffers are sequences.   *)
(***************************************************************************)
EXTENDS Integers, Sequences, FiniteSets, TLC

VARIABLES
  \* ---- the CopyStreamQuery object of copy-both.js (constructor, l.18-38)
  _state, _buffer, _unreadMessageContentLength, _copyDataChunks, _code,
  _pgDataHandler, _drained, _forwarding, rowMode,
  _gotCopyInResponse, chunks, cb, cb_flush, connection,
  cleaned,            \* _cleanup() has set the four fields to null
  \* ---- the CopyStreamQuery object of copy-to.js (constructor, l.11-16)
  _remainder, _gotCopyOutResponse, rowCount, piped,
  \* ---- stream.Readable side of the object (push / _read)
  pushed, taken, ended,
  \* ---- stream.Writable side of the object (cork / write / end / _final)
  corked, wbuf, writing, ending, finalCalled, finalCbCalls,
  writeCalls, cbInvoked,
  \* ---- connection.stream, the transport, and pg's own data handler
  impl, stream, gate, sent, sockBuf, dataListeners, readableListener,
  readablePending, resumePending, flowing, pgReceived, pgDispatched,
  written, wroom, needDrain, drainListeners,
  \* ---- observers
  consumed, errors, threw, submitted, detaches, rfqHandled,
  bp, bpPushes, bpReads, userWrites, ackedAt,
  second, hung, bpWrites, cbEarly

vars == << _state, _buffer, _unreadMessageContentLength, _copyDataChunks,
           _code, _pgDataHandler, _drained, _forwarding, rowMode,
           _gotCopyInResponse, chunks, cb, cb_flush, connection, cleaned,
           _remainder, _gotCopyOutResponse, rowCount, piped,
           pushed, taken, ended,
           corked, wbuf, writing, ending, finalCalled, finalCbCalls,
           writeCalls, cbInvoked,
           impl, stream, gate, sent, sockBuf, dataListeners,
           readableListener,
           readablePending, resumePending, flowing, pgReceived,
           pgDispatched,
           written, wroom, needDrain, drainListeners,
           consumed, errors, threw, submitted, detaches, rfqHandled,
           bp, bpPushes, bpReads, userWrites, ackedAt,
           second,
           hung,
           bpWrites,
           cbEarly >>

\* The whole state as one record.
W ==
  [ _state |-> _state, _buffer |-> _buffer,
    _unreadMessageContentLength |-> _unreadMessageContentLength,
    _copyDataChunks |-> _copyDataChunks, _code |-> _code,
    _pgDataHandler |-> _pgDataHandler, _drained |-> _drained,
    _forwarding |-> _forwarding, rowMode |-> rowMode,
    _gotCopyInResponse |-> _gotCopyInResponse, chunks |-> chunks, cb |-> cb,
    cb_flush |-> cb_flush, connection |-> connection, cleaned |-> cleaned,
    _remainder |-> _remainder, _gotCopyOutResponse |-> _gotCopyOutResponse,
    rowCount |-> rowCount, piped |-> piped,
    pushed |-> pushed, taken |-> taken, ended |-> ended,
    corked |-> corked, wbuf |-> wbuf, writing |-> writing, ending |-> ending,
    finalCalled |-> finalCalled, finalCbCalls |-> finalCbCalls,
    writeCalls |-> writeCalls, cbInvoked |-> cbInvoked,
    impl |-> impl, stream |-> stream, gate |-> gate, sent |-> sent,
    sockBuf |-> sockBuf,
    dataListeners |-> dataListeners, readableListener |-> readableListener,
    readablePending |-> readablePending,
    resumePending |-> resumePending, flowing |-> flowing,
    pgReceived |-> pgReceived, pgDispatched |-> pgDispatched,
    written |-> written, wroom |-> wroom, needDrain |-> needDrain,
    drainListeners |-> drainListeners,
    consumed |-> consumed, errors |-> errors, threw |-> threw,
    submitted |-> submitted, detaches |-> detaches, rfqHandled |-> rfqHandled,
    bp |-> bp, bpPushes |-> bpPushes, bpReads |-> bpReads,
    userWrites |-> userWrites, ackedAt |-> ackedAt,
    second |-> second,
    hung |-> hung,
    bpWrites |-> bpWrites,
    cbEarly |-> cbEarly ]

\* The state after a handler has run: w is the world it left.
Install(world) ==
  \E w \in {world} :
    /\ _state' = w._state /\ _buffer' = w._buffer
    /\ _unreadMessageContentLength' = w._unreadMessageContentLength
    /\ _copyDataChunks' = w._copyDataChunks /\ _code' = w._code
    /\ _pgDataHandler' = w._pgDataHandler /\ _drained' = w._drained
    /\ _forwarding' = w._forwarding /\ rowMode' = w.rowMode
    /\ _gotCopyInResponse' = w._gotCopyInResponse /\ chunks' = w.chunks
    /\ cb' = w.cb /\ cb_flush' = w.cb_flush /\ connection' = w.connection
    /\ cleaned' = w.cleaned
    /\ _remainder' = w._remainder
    /\ _gotCopyOutResponse' = w._gotCopyOutResponse
    /\ rowCount' = w.rowCount /\ piped' = w.piped
    /\ pushed' = w.pushed /\ taken' = w.taken /\ ended' = w.ended
    /\ corked' = w.corked /\ wbuf' = w.wbuf /\ writing' = w.writing
    /\ ending' = w.ending /\ finalCalled' = w.finalCalled
    /\ finalCbCalls' = w.finalCbCalls
    /\ writeCalls' = w.writeCalls /\ cbInvoked' = w.cbInvoked
    /\ impl' = w.impl /\ stream' = w.stream /\ gate' = w.gate /\ sent' = w.sent
    /\ sockBuf' = w.sockBuf /\ dataListeners' = w.dataListeners
    /\ readableListener' = w.readableListener
    /\ readablePending' = w.readablePending
    /\ resumePending' = w.resumePending /\ flowing' = w.flowing
    /\ pgReceived' = w.pgReceived /\ pgDispatched' = w.pgDispatched
    /\ written' = w.written /\ wroom' = w.wroom /\ needDrain' = w.needDrain
    /\ drainListeners' = w.drainListeners
    /\ consumed' = w.consumed /\ errors' = w.errors /\ threw' = w.threw
    /\ submitted' = w.submitted /\ detaches' = w.detaches
    /\ rfqHandled' = w.rfqHandled
    /\ bp' = w.bp /\ bpPushes' = w.bpPushes /\ bpReads' = w.bpReads
    /\ userWrites' = w.userWrites /\ ackedAt' = w.ackedAt
    /\ second' = w.second
    /\ hung' = w.hung
    /\ bpWrites' = w.bpWrites
    /\ cbEarly' = w.cbEarly

-----------------------------------------------------------------------------
(* Message codes of ./message-formats (required at copy-both.js l.10 and   *)
(* copy-to.js l.9): the ASCII codes of the PostgreSQL protocol.            *)
CopyData == 100              \* 'd'
CopyDone == 99               \* 'c'
ErrorResponse == 69          \* 'E'
CopyOutResponse == 72        \* 'H'
CopyBothResponse == 87       \* 'W'
ParameterStatus == 83        \* 'S'
NoticeResponse == 78         \* 'N'
NotificationResponse == 65   \* 'A'
ReadyForQuery == 90          \* 'Z'
CommandComplete == 67        \* 'C'

\* Readable decoder states
PG_CODE == 0
PG_LENGTH == 1
PG_MESSAGE == 2

Byte1Len == 1
Int32Len == 4

-----------------------------------------------------------------------------
(* Bounds of the model.                                                    *)
MaxListeners == 2    \* 'data' listeners on the transport before submit
HighWaterMark == 2   \* readableHighWaterMark of the stream, in bytes
MaxWrites == 3       \* chunks the caller writes
MaxRoom == 2         \* transport writes accepted before write() returns false

-----------------------------------------------------------------------------
(* Buffers.                                                                *)
Take(s, n) == SubSeq(s, 1, n)
Drop(s, n) == SubSeq(s, n + 1, Len(s))
Min(a, b) == IF a < b THEN a ELSE b

\* Buffer.readUInt32BE
ReadUInt32BE(b) == b[1] * 16777216 + b[2] * 65536 + b[3] * 256 + b[4]

\* Buffer.writeUInt32BE
WriteUInt32BE(n) ==
  << (n \div 16777216) % 256, (n \div 65536) % 256, (n \div 256) % 256, n % 256 >>

\* One protocol message as the server sends it.
Frame(c, payload) == <<c>> \o WriteUInt32BE(Len(payload) + Int32Len) \o payload

RECURSIVE Concat(_)
Concat(ss) == IF ss = <<>> THEN <<>> ELSE Head(ss) \o Concat(Tail(ss))

RECURSIVE SumLen(_)
SumLen(ss) == IF ss = <<>> THEN 0 ELSE Len(Head(ss)) + SumLen(Tail(ss))

-----------------------------------------------------------------------------
(* stream.Readable, the base class of the object: push().                  *)
(* push(chunk) buffers the chunk and returns whether the buffered length   *)
(* is still below the high-water mark; push(null) ends the stream.         *)

\* Bytes pushed and not yet taken by the consumer.
ReadableLength(w) == SumLen(SubSeq(w.pushed, w.taken + 1, Len(w.pushed)))

push(w, chunk) ==
  LET w1 == [w EXCEPT !.pushed = Append(@, chunk),
                      !.bpPushes = @ \/ w.bp]
      ok == ReadableLength(w1) < HighWaterMark
  IN  [w |-> [w1 EXCEPT !.bp = @ \/ ~ok], ret |-> ok]

pushNull(w) == [w EXCEPT !.ended = @ + 1]

-----------------------------------------------------------------------------
(* connection.stream, the transport.                                       *)

\* connectionStream.read() of a paused stream: everything buffered, or null
\* (here the empty buffer) when nothing is.
read(w) ==
  [w |-> [w EXCEPT !.sockBuf = <<>>, !.bpReads = @ \/ w.bp], chunk |-> w.sockBuf]

\* connection.stream.write(bytes): false once the socket's buffer is full,
\* and from then on until 'drain'.  wroom counts the writes still accepted;
\* MaxRoom + 1 stands for a socket that keeps up with every write.
Unlimited == MaxRoom + 1

write(w, bytes) ==
  IF ~w.connection THEN [w |-> [w EXCEPT !.threw = TRUE], ret |-> FALSE]
  ELSE LET w1 == [w EXCEPT !.written = @ \o bytes]
       IN  IF w.needDrain \/ w.wroom = 0
           THEN [w |-> [w1 EXCEPT !.needDrain = TRUE], ret |-> FALSE]
           ELSE [w |-> [w1 EXCEPT !.wroom = IF @ = Unlimited THEN @ ELSE @ - 1],
                 ret |-> TRUE]

-----------------------------------------------------------------------------
(* copy-both.js: helpers of the object.                                    *)

_cleanup(w) ==
  [w EXCEPT !.cleaned = TRUE, !._buffer = <<>>, !._copyDataChunks = <<>>,
            !._pgDataHandler = FALSE]

handleError(w) == _cleanup([w EXCEPT !.errors = @ + 1])

\* cb_flush is the callback of _final: calling it completes the write side.
handleReadyForQuery(w) ==
  LET w1 == [w EXCEPT !.connection = FALSE, !.rfqHandled = @ + 1]
  IN  IF w1.cb_flush THEN [w1 EXCEPT !.finalCbCalls = @ + 1]
      ELSE [w1 EXCEPT !.threw = TRUE]

\* The original 'data' handler of the connection (pg's parser), which
\* _detach calls and re-registers: it keeps the bytes it is given and
\* dispatches every complete message to the active query.
RECURSIVE PgDispatch(_)
PgDispatch(w) ==
  LET rest == Drop(w.pgReceived, w.pgDispatched)
  IN  IF w.threw \/ Len(rest) < Byte1Len + Int32Len THEN w
      ELSE LET length == ReadUInt32BE(SubSeq(rest, 2, 5))
           IN  IF Len(rest) < Byte1Len + length THEN w
               ELSE LET w1 == [w EXCEPT !.pgDispatched = @ + Byte1Len + length]
                    IN  CASE rest[1] = ErrorResponse -> PgDispatch(handleError(w1))
                          [] rest[1] = ReadyForQuery -> PgDispatch(handleReadyForQuery(w1))
                          [] OTHER -> PgDispatch(w1)

PgData(w, bytes) == PgDispatch([w EXCEPT !.pgReceived = @ \o bytes])

\* A _detach that leaves the transport paused.
ResumeNextTick_Never(w) == w

\* process.nextTick(function () { connectionStream.resume() })
ResumeNextTick(w) == IF w.threw THEN w ELSE [w EXCEPT !.resumePending = TRUE]

\* A _detach that restores the handler and does not replay the accumulator.
_detach_NoReplay(w) ==
  IF ~w.connection \/ w.cleaned THEN [w EXCEPT !.threw = TRUE]
  ELSE ResumeNextTick([w EXCEPT !._buffer = <<>>,
                                !.readableListener = FALSE,
                                !.dataListeners = @ + 1,
                                !.detaches = @ + 1])

_detach(w) ==
  IF ~w.connection \/ w.cleaned THEN [w EXCEPT !.threw = TRUE]
  ELSE LET unreadBuffer == w._buffer
           w1 == [w EXCEPT !._buffer = <<>>,
                           !.readableListener = FALSE,
                           !.dataListeners = @ + 1,
                           !.detaches = @ + 1]
       IN  ResumeNextTick(PgData(w1, unreadBuffer))

_flushCopyData(w) ==
  LET len == Len(w._copyDataChunks)
  IN  IF len > 0
      THEN push([w EXCEPT !._copyDataChunks = <<>>], Take(w._copyDataChunks, len))
      ELSE [w |-> w, ret |-> TRUE]

-----------------------------------------------------------------------------
(* copy-both.js: Writable implementation.  A write callback is the number  *)
(* of the _write/_writev call it belongs to (0: no callback); stream.      *)
(* Writable has one such call outstanding at a time (writing).             *)

\* bpWrites observes that a frame is begun on the transport after one of its
\* writes has returned false and before its 'drain'.
FrameStart(w) == [w EXCEPT !.bpWrites = @ \/ w.needDrain]

flushChunk(w, chunk) ==
  LET lenBuffer == <<CopyData>> \o WriteUInt32BE(Len(chunk) + Int32Len)
  IN  write(write(FrameStart(w), lenBuffer).w, chunk)

\* while (ok && (chunk = this.chunks.shift())) ok = this.flushChunk(chunk.chunk)
\* r = [w, ret]: the state, and ok
RECURSIVE FlushLoop(_)
FlushLoop(r) ==
  IF r.ret /\ r.w.chunks # <<>> /\ ~r.w.threw
  THEN FlushLoop(flushChunk([r.w EXCEPT !.chunks = Tail(@)], Head(r.w.chunks)))
  ELSE r

RECURSIVE flush(_, _)
RECURSIVE onwrite(_, _)

\* _write(chunk, enc, cb), as stream.Writable calls it (writing is set)
_write(w, chunk) ==
  LET id == w.writeCalls + 1
      w1 == [w EXCEPT !.writing = TRUE, !.writeCalls = id,
                      !.cbInvoked = Append(@, 0),
                      !.chunks = Append(@, chunk)]
  IN  IF w1._gotCopyInResponse THEN flush(w1, id)
      ELSE [w1 EXCEPT !.cb = id]

\* _writev(chunks, cb)
_writev(w, cs) ==
  LET id == w.writeCalls + 1
      w1 == [w EXCEPT !.writing = TRUE, !.writeCalls = id,
                      !.cbInvoked = Append(@, 0),
                      !.chunks = @ \o cs]
  IN  IF w1._gotCopyInResponse THEN flush(w1, id)
      ELSE [w1 EXCEPT !.cb = id]

\* stream.Writable clearBuffer: the buffered writes go to _writev when there
\* are several, to _write when there is one.
ClearBuffer(w) ==
  IF w.corked > 0 \/ w.writing \/ w.wbuf = <<>> THEN w
  ELSE IF Len(w.wbuf) > 1 THEN _writev([w EXCEPT !.wbuf = <<>>], w.wbuf)
  ELSE _write([w EXCEPT !.wbuf = <<>>], w.wbuf[1])

\* The callback of a _write/_writev call (stream.Writable onwrite): the call
\* is over, and the writes buffered meanwhile are passed on.
\* cbEarly observes a callback invoked while the queue still holds a chunk:
\* one call is outstanding at a time and the queue is first-in first-out, so
\* the chunk is one of that call's.
onwrite(w, id) ==
  LET w1 == [w EXCEPT !.cbInvoked[id] = @ + 1,
                      !.cbEarly = @ \/ w.chunks # <<>>]
  IN  IF ~w.writing THEN [w1 EXCEPT !.errors = @ + 1]
      ELSE ClearBuffer([w1 EXCEPT !.writing = FALSE])

\* if (callback) { ... } of flush, after its loop left r = [w, ret]
FlushCallback(r, callback) ==
  IF callback = 0 \/ r.w.threw THEN r.w
  ELSE IF r.ret THEN onwrite(r.w, callback)
  ELSE IF r.w.chunks # <<>>
       THEN [r.w EXCEPT !.drainListeners =
                            Append(@, [flush |-> TRUE, cb |-> callback])]
       ELSE [r.w EXCEPT !.drainListeners =
                            Append(@, [flush |-> FALSE, cb |-> callback])]

\* flush(callback); callback 0 is flush() without one.
flush(w, callback) == FlushCallback(FlushLoop([w |-> w, ret |-> TRUE]), callback)

\* stream.Writable uncork()
uncork(w) ==
  IF w.corked > 0 THEN ClearBuffer([w EXCEPT !.corked = @ - 1]) ELSE w

\* if (this.cb) { ... } of _startCopyIn
StartCopyInCb(w) ==
  IF w.cb # 0 THEN onwrite([w EXCEPT !.cb = 0], w.cb) ELSE w

\* ackedAt observes how many chunks the caller had written by then.
_startCopyIn(w) ==
  StartCopyInCb(flush(uncork([w EXCEPT !._gotCopyInResponse = TRUE,
                                       !.ackedAt = w.userWrites]), 0))

\* A _final that completes as soon as CopyDone is written.
SetCbFlush_CallsNow(w) ==
  IF w.threw THEN w ELSE [w EXCEPT !.cb_flush = TRUE, !.finalCbCalls = @ + 1]

\* this.cb_flush = cb of _final
SetCbFlush(w) == IF w.threw THEN w ELSE [w EXCEPT !.cb_flush = TRUE]

_final(w) ==
  LET finBuffer == <<CopyDone, 0, 0, 0, Int32Len>>
  IN  SetCbFlush(write(FrameStart(flush(w, 0)), finBuffer).w)

-----------------------------------------------------------------------------
(* copy-both.js: Readable implementation.                                  *)
(* The loop of _parse works on p = [w, done, drained, ctl]: ctl is "run"   *)
(* while the iteration goes on, "break" after a break and "return" after   *)
(* the return of the ErrorResponse interception.                           *)

\* Bytes leave the accumulator for the decoder (readUInt8, readUInt32BE, take).
Consume(w, n) ==
  [w EXCEPT !._buffer = Drop(@, n), !.consumed = @ \o Take(w._buffer, n)]

\* A decoder that reads the ErrorResponse code before it detaches.
ParseCode_ReadsError(p) ==
  IF p.ctl # "run" \/ p.w._state # PG_CODE THEN p
  ELSE IF Len(p.w._buffer) < 1 THEN [p EXCEPT !.ctl = "break"]
  ELSE LET c == p.w._buffer[1]
           w1 == Consume([p.w EXCEPT !._code = c], 1)
       IN  IF c = ErrorResponse
           THEN [p EXCEPT !.w = _detach(w1), !.ctl = "return"]
           ELSE [p EXCEPT !.w = [w1 EXCEPT !._state = PG_LENGTH]]

\* if (PG_CODE === this._state) { ... }            (l.106-118)
ParseCode(p) ==
  IF p.ctl # "run" \/ p.w._state # PG_CODE THEN p
  ELSE IF Len(p.w._buffer) < 1 THEN [p EXCEPT !.ctl = "break"]
  ELSE LET c == p.w._buffer[1]
           w1 == [p.w EXCEPT !._code = c]
       IN  IF c = ErrorResponse
           THEN [p EXCEPT !.w = _detach(w1), !.ctl = "return"]
           ELSE [p EXCEPT !.w = [Consume(w1, 1) EXCEPT !._state = PG_LENGTH]]

\* if (PG_LENGTH === this._state) { ... }          (l.120-124)
ParseLength(p) ==
  IF p.ctl # "run" \/ p.w._state # PG_LENGTH THEN p
  ELSE IF Len(p.w._buffer) < 4 THEN [p EXCEPT !.ctl = "break"]
  ELSE [p EXCEPT !.w =
          [Consume(p.w, 4) EXCEPT
             !._unreadMessageContentLength = ReadUInt32BE(Take(p.w._buffer, 4)) - 4,
             !._state = PG_MESSAGE]]

\* The content of the message, as far as it has arrived   (l.127-134)
ParseContent(w) ==
  IF w._unreadMessageContentLength > 0 /\ Len(w._buffer) > 0
  THEN LET n == Min(Len(w._buffer), w._unreadMessageContentLength)
           messageContentChunk == Take(w._buffer, n)
       IN  [Consume(w, n) EXCEPT
              !._unreadMessageContentLength = @ - n,
              !._copyDataChunks =
                 IF w._code = CopyData THEN @ \o messageContentChunk ELSE @]
  ELSE w

\* drained = this._flushCopyData(), which gave r = [w, ret]
Drained(p, r) == [p EXCEPT !.w = r.w, !.drained = r.ret]

\* switch (this._code) of a full message          (l.136-159)
ParseFull(p) ==
  LET q == CASE p.w._code = CopyBothResponse ->
                  [p EXCEPT !.w = _startCopyIn(p.w)]
             [] p.w._code = CopyData ->
                  IF p.w.rowMode THEN Drained(p, _flushCopyData(p.w)) ELSE p
             [] p.w._code \in {ParameterStatus, NoticeResponse, NotificationResponse} ->
                  p
             [] OTHER -> [p EXCEPT !.done = TRUE]
  IN  [q EXCEPT !.w._state = PG_CODE]

\* if (PG_MESSAGE === this._state) { ... }         (l.126-160)
ParseIfFull(p) ==
  IF p.w._unreadMessageContentLength = 0 THEN ParseFull(p) ELSE p

ParseMessage(p) ==
  IF p.ctl # "run" \/ p.w._state # PG_MESSAGE THEN p
  ELSE ParseIfFull([p EXCEPT !.w = ParseContent(p.w)])

RECURSIVE ParseLoop(_)

\* One iteration took the loop from p to q.  The iteration is a function of
\* p: when it changes nothing the loop never ends, _parse does not return
\* and no handler runs after it (hung observes that; threw stops the
\* handlers).
ParseStep(p, q) ==
  IF q = p THEN [p EXCEPT !.w.hung = TRUE, !.w.threw = TRUE, !.ctl = "return"]
  ELSE ParseLoop(q)

\* while (!done && this._buffer.size > 0) { ... }
ParseLoop(p) ==
  IF p.ctl # "run" \/ p.done \/ Len(p.w._buffer) = 0 \/ p.w.threw THEN p
  ELSE ParseStep(p, ParseMessage(ParseLength(ParseCode(p))))

\* this.push(null); this._cleanup() after the _detach() that left w
ParseEnded(w, drained) ==
  IF w.threw THEN [w |-> w, ret |-> FALSE]
  ELSE [w |-> _cleanup(pushNull(w)), ret |-> drained]

\* if (done) { ... }; return drained              (l.169-175)
ParseDone(r, done) == IF done THEN ParseEnded(_detach(r.w), r.ret) ELSE r

\* A _parse that flushes what it has at the end of every call, in row mode too.
ParseFlush_Always(p) == _flushCopyData(p.w)

\* if (!this.rowMode) drained = this._flushCopyData()   (l.165-167)
ParseFlush(p) ==
  IF ~p.w.rowMode THEN _flushCopyData(p.w) ELSE [w |-> p.w, ret |-> p.drained]

\* What follows the loop, which left p.
ParseEnd(p) ==
  IF p.ctl = "return" \/ p.w.threw THEN [w |-> p.w, ret |-> FALSE]
  ELSE ParseDone(ParseFlush(p), p.done)

\* _parse(chunk): the new state and the value returned (undefined is FALSE).
_parse(w, chunk) ==
  IF w.cleaned THEN [w |-> [w EXCEPT !.threw = TRUE], ret |-> FALSE]
  ELSE ParseEnd(ParseLoop([w |-> [w EXCEPT !._buffer = @ \o chunk],
                           done |-> FALSE, drained |-> TRUE, ctl |-> "run"]))

\* A _forward that goes on reading whatever _parse returned.
SetDrained_Always(q) == [q.w EXCEPT !._drained = TRUE]

\* this._drained = this._parse(chunk), which gave q = [w, ret]
SetDrained(q) == [q.w EXCEPT !._drained = q.ret]

\* while (this._drained && (chunk = connectionStream.read()) !== null)
RECURSIVE ForwardLoop(_)
ForwardLoop(w) ==
  IF ~w._drained \/ w.threw THEN w
  ELSE IF w.sockBuf = <<>> THEN read(w).w
  ELSE ForwardLoop(SetDrained(_parse(read(w).w, w.sockBuf)))

\* this._forwarding = false, which an exception skips
ForwardEnd(w) == IF w.threw THEN w ELSE [w EXCEPT !._forwarding = FALSE]

_forward(w) ==
  IF w._forwarding \/ ~w._drained \/ ~w.connection THEN w
  ELSE ForwardEnd(ForwardLoop([w EXCEPT !._forwarding = TRUE]))

_onReadable(w) == _forward(w)

\* A _read that notes the readiness and does not forward.
_read_NoForward(w) == [w EXCEPT !._drained = TRUE, !.bp = FALSE]

_read(w) == _forward([w EXCEPT !._drained = TRUE, !.bp = FALSE])

\* An _attach that does not look at the number of 'data' listeners.
_attach_NoAssert(w) ==
  [_forward([w EXCEPT !._pgDataHandler = TRUE,
                      !.dataListeners = @ - 1,
                      !.flowing = FALSE]) EXCEPT !.readableListener = TRUE]

\* assert(pgDataListeners.length == 1) throws when it fails.
_attach(w) ==
  IF w.dataListeners # 1 THEN [w EXCEPT !.threw = TRUE]
  ELSE LET w1 == [w EXCEPT !._pgDataHandler = TRUE,
                           !.dataListeners = @ - 1,
                           !.flowing = FALSE]
       IN  [_forward(w1) EXCEPT !.readableListener = TRUE]

\* connection.query(text) sends the query; the server's answer is `stream`.
submit(w) == [_attach([w EXCEPT !.connection = TRUE]) EXCEPT !.submitted = TRUE]

-----------------------------------------------------------------------------
(* copy-to.js: the Transform stream.  The loop of _transform works on      *)
(* t = [w, chunk, offset, needPush, buffer, ctl]; buffer holds the bytes   *)
(* written so far into the Buffer.alloc(chunk.length) of l.53 (buffer up   *)
(* to buffer_offset).                                                      *)

pushBufferIfneeded(t) ==
  IF t.needPush /\ Len(t.buffer) > 0
  THEN [t EXCEPT !.w = push(t.w, t.buffer).w, !.buffer = <<>>]
  ELSE t

\* connectionStream.unpipe(this), and resume() on the next tick
to_detach(w) == [w EXCEPT !.piped = FALSE, !.resumePending = TRUE]

\* this._detach(); this.push(null); return cb()        (l.92-94)
TransformReturn(t) == [t EXCEPT !.w = pushNull(to_detach(t.w)), !.ctl = "return"]

\* switch (messageCode)                                (l.68-98)
TransformCode(t) ==
  LET messageCode == t.chunk[t.offset + 1]
  IN  CASE messageCode = CopyOutResponse ->
             IF ~t.w._gotCopyOutResponse
             THEN [t EXCEPT !.w._gotCopyOutResponse = TRUE]
             ELSE [t EXCEPT !.w.errors = @ + 1]
        [] messageCode = CopyData -> [t EXCEPT !.needPush = TRUE]
        [] messageCode \in {ParameterStatus, NoticeResponse, NotificationResponse} -> t
        [] messageCode \in {ErrorResponse, CopyDone} ->
             TransformReturn(pushBufferIfneeded(t))
        [] OTHER -> [t EXCEPT !.w.errors = @ + 1]

\* The message after its code: taken when it is complete   (l.100-113)
TransformMessage(t) ==
  LET length == ReadUInt32BE(SubSeq(t.chunk, t.offset + Byte1Len + 1,
                                    t.offset + Byte1Len + Int32Len))
      offset == t.offset + Byte1Len + Int32Len
      row == SubSeq(t.chunk, offset + 1, offset + length - Int32Len)
  IN  IF t.ctl # "run" THEN t
      ELSE IF Len(t.chunk) >= t.offset + Byte1Len + length
      THEN IF t.needPush
           THEN [t EXCEPT !.w.rowCount = @ + 1,
                          !.buffer = @ \o row,
                          !.offset = offset + length - Int32Len]
           ELSE [t EXCEPT !.offset = offset + length - Int32Len]
      ELSE [t EXCEPT !.ctl = "break"]

\* while (chunk.length - offset >= Byte1Len + Int32Len) { ... }
RECURSIVE TransformLoop(_)
TransformLoop(t) ==
  IF t.ctl # "run" \/ Len(t.chunk) - t.offset < Byte1Len + Int32Len THEN t
  ELSE TransformLoop(TransformMessage(TransformCode(t)))

\* A _transform that forgets the bytes of an incomplete message.
SetRemainder_Lost(t) == [t.w EXCEPT !._remainder = <<>>]

\* this._remainder = chunk.slice(offset), or false     (l.118-123)
SetRemainder(t) == [t.w EXCEPT !._remainder = Drop(t.chunk, t.offset)]

\* What follows the loop, which left t.
TransformEnd(t) ==
  IF t.ctl = "return" THEN t.w ELSE SetRemainder(pushBufferIfneeded(t))

\* _transform(chunk, enc, cb); _remainder false is the empty sequence.
_transform(w, data) ==
  LET chunk == IF w._remainder # <<>> THEN w._remainder \o data ELSE data
  IN  TransformEnd(TransformLoop([w |-> w, chunk |-> chunk, offset |-> 0,
                                  needPush |-> FALSE, buffer |-> <<>>,
                                  ctl |-> "run"]))

\* submit(connection): pg's own handler stays registered beside the pipe.
to_submit(w) == [w EXCEPT !.connection = TRUE, !.piped = TRUE, !.submitted = TRUE]

-----------------------------------------------------------------------------
(* What the server sends, and what the caller writes.                      *)

\* The messages of a byte sequence that holds whole messages.
RECURSIVE Frames(_)
Frames(bytes) ==
  IF Len(bytes) < Byte1Len + Int32Len THEN <<>>
  ELSE LET length == ReadUInt32BE(SubSeq(bytes, 2, 5))
       IN  IF Len(bytes) < Byte1Len + length THEN <<>>
           ELSE << [code |-> bytes[1],
                    payload |-> SubSeq(bytes, Byte1Len + Int32Len + 1, Byte1Len + length)] >>
                \o Frames(Drop(bytes, Byte1Len + length))

\* The payloads of the CopyData messages among them, in order.
RECURSIVE Payloads(_)
Payloads(fs) ==
  IF fs = <<>> THEN <<>>
  ELSE (IF Head(fs).code = CopyData THEN <<Head(fs).payload>> ELSE <<>>)
       \o Payloads(Tail(fs))

Codes(fs) == [i \in 1..Len(fs) |-> fs[i].code]

StartCode == IF impl = "copy-both" THEN CopyBothResponse ELSE CopyOutResponse
Start == Frame(StartCode, <<0>>)
Rows == Frame(CopyData, <<1, 2>>) \o Frame(CopyData, <<3>>)
Done == Frame(CopyDone, <<>>)
Error == Frame(ErrorResponse, <<5>>)
Ready == Frame(ReadyForQuery, <<73>>)
Complete == Frame(CommandComplete, <<9>>)
Notice == Frame(NoticeResponse, <<8>>)

\* A server stream is <<what it sends unasked, what it sends once it has
\* read the client's CopyDone>>.
ReferenceStream == << Start \o Rows \o Done, <<>> >>
ReadStreams ==
  IF impl = "copy-both"
  THEN { ReferenceStream,
         << Start \o Frame(CopyData, <<>>) \o Frame(CopyData, <<3>>) \o Done, <<>> >>,
         << Start \o Rows \o Done \o Notice, <<>> >>,
         << Start \o Frame(CopyData, <<1, 2>>) \o Error \o Ready, <<>> >>,
         << Start \o Error \o Ready, <<>> >> }
  ELSE { ReferenceStream }
WriteStreams ==
  { << Start \o Frame(CopyData, <<1>>) \o Done, Complete \o Ready >>,
    << Start \o Error \o Ready, <<>> >>,
    << Error \o Ready, <<>> >> }

\* A message of a code that belongs to no copy transfer.
Unknown == Frame(88, <<6>>)

\* Streams with informational messages between the rows, with a second
\* copy-start message, with a message of an unknown code, and with an
\* ErrorResponse after a row.
ProtocolStreams ==
  { Start \o Frame(CopyData, <<1, 2>>) \o Notice \o Frame(CopyData, <<3>>) \o Done,
    Start \o Frame(CopyData, <<1>>) \o Start \o Done,
    Start \o Frame(CopyData, <<1>>) \o Unknown \o Frame(CopyData, <<3>>) \o Done,
    Start \o Frame(CopyData, <<1, 2>>) \o Error \o Ready }

\* Streams whose messages declare a length: of 4 and more, as the protocol
\* has it, of 3, and of 0.
LengthStreams ==
  { Start \o Rows \o Done,
    Start \o <<CopyData, 0, 0, 0, 3>> \o <<7>> \o Done,
    Start \o Frame(CopyData, <<1>>) \o <<NoticeResponse, 0, 0, 0, 0>> \o Done }

\* The k-th chunk the caller writes.
UserChunk(k) == [i \in 1..(1 + (k % 2)) |-> 10 * k + i]

\* The client's CopyDone has reached the server.
ClientDone == \E i \in 1..Len(Frames(written)) : Frames(written)[i].code = CopyDone

-----------------------------------------------------------------------------
(* The state after construction (copy-both.js l.18-38, copy-to.js l.11-16) *)
(* on a connection whose stream flows to pg's data handler.                *)
InitObject ==
  /\ _state = PG_CODE /\ _buffer = <<>> /\ _unreadMessageContentLength = 0
  /\ _copyDataChunks = <<>> /\ _code = 0 /\ _pgDataHandler = FALSE
  /\ _drained = FALSE /\ _forwarding = FALSE
  /\ _gotCopyInResponse = FALSE /\ chunks = <<>> /\ cb = 0 /\ cb_flush = FALSE
  /\ connection = FALSE /\ cleaned = FALSE
  /\ _remainder = <<>> /\ _gotCopyOutResponse = FALSE /\ rowCount = 0
  /\ piped = FALSE
  /\ pushed = <<>> /\ taken = 0 /\ ended = 0
  /\ corked = 1 /\ wbuf = <<>> /\ writing = FALSE /\ ending = FALSE
  /\ finalCalled = FALSE /\ finalCbCalls = 0 /\ writeCalls = 0
  /\ cbInvoked = <<>>
  /\ sent = 0 /\ sockBuf = <<>>
  /\ readableListener = FALSE /\ readablePending = FALSE
  /\ resumePending = FALSE /\ flowing = TRUE
  /\ pgReceived = <<>> /\ pgDispatched = 0
  /\ written = <<>> /\ needDrain = FALSE /\ drainListeners = <<>>
  /\ consumed = <<>> /\ errors = 0 /\ threw = FALSE /\ submitted = FALSE
  /\ detaches = 0 /\ rfqHandled = 0
  /\ bp = FALSE /\ bpPushes = FALSE /\ bpReads = FALSE /\ userWrites = 0
  /\ ackedAt = 0
  /\ cbEarly = FALSE
  /\ bpWrites = FALSE
  /\ hung = FALSE
  /\ second = "none"

Init ==
  /\ InitObject /\ dataListeners = 1
  /\ impl \in {"copy-both", "copy-to"}
  /\ rowMode \in (IF impl = "copy-both" THEN BOOLEAN ELSE {FALSE})
  /\ \E s \in ReadStreams : stream = s[1] \o s[2] /\ gate = Len(s[1])
  /\ wroom = Unlimited

InitWrite ==
  /\ InitObject /\ dataListeners = 1
  /\ impl = "copy-both"
  /\ rowMode = FALSE
  /\ \E s \in WriteStreams : stream = s[1] \o s[2] /\ gate = Len(s[1])
  /\ wroom \in 0..Unlimited

\* The same objects on the streams above, on a transport with any number
\* of 'data' listeners.
InitProtocol ==
  /\ InitObject
  /\ impl \in {"copy-both", "copy-to"}
  /\ dataListeners \in (IF impl = "copy-both" THEN 0..MaxListeners ELSE {1})
  /\ rowMode \in (IF impl = "copy-both" THEN BOOLEAN ELSE {FALSE})
  /\ stream \in ProtocolStreams /\ gate = Len(stream)
  /\ wroom = Unlimited

\* A copy-both transfer on the streams of any declared length.
InitLength ==
  /\ InitObject /\ dataListeners = 1
  /\ impl = "copy-both"
  /\ rowMode \in BOOLEAN
  /\ stream \in LengthStreams /\ gate = Len(stream)
  /\ wroom = Unlimited

-----------------------------------------------------------------------------
(* The handlers.                                                           *)

\* pg submits the query: submit(connection) of copy-both.js
Submit ==
  /\ impl = "copy-both" /\ ~submitted /\ ~threw
  /\ Install(submit(W))

\* submit(connection) of copy-to.js
ToSubmit ==
  /\ impl = "copy-to" /\ ~submitted /\ ~threw
  /\ Install(to_submit(W))

\* The transport receives the next n bytes of the server's stream.  Paused
\* (attached), it buffers them for read() and schedules one 'readable' event;
\* flowing, it emits 'data' to the registered handler.  The resume() of
\* _detach runs on the next tick, before any I/O.
Deliver(n) ==
  /\ impl = "copy-both" /\ submitted /\ ~threw /\ ~resumePending
  /\ sent + n <= Len(stream)
  /\ sent + n <= gate \/ ClientDone
  /\ LET bytes == SubSeq(stream, sent + 1, sent + n)
         w == [W EXCEPT !.sent = @ + n]
     IN  IF flowing THEN Install(PgData(w, bytes))
         ELSE Install([w EXCEPT !.sockBuf = @ \o bytes,
                                !.readablePending = TRUE])

\* While the transfer is attached, another CopyStreamQuery of copy-both.js
\* is submitted on the same connection: its submit runs _attach on the same
\* transport.  An _attach that throws leaves the transport as it was; one
\* that does not has taken the 'data' listener it found and paused.
SecondAttach(w2) ==
  IF w2.threw THEN [W EXCEPT !.second = "failed"]
  ELSE [W EXCEPT !.second = "attached",
                 !.dataListeners = w2.dataListeners,
                 !.flowing = w2.flowing]

SecondSubmit ==
  /\ impl = "copy-both" /\ readableListener /\ ~threw /\ second = "none"
  /\ Install(SecondAttach(_attach([W EXCEPT !._drained = FALSE,
                                            !._forwarding = FALSE])))

\* 'readable' of the transport
OnReadable ==
  /\ readableListener /\ readablePending /\ ~threw
  /\ Install(_onReadable([W EXCEPT !.readablePending = FALSE]))

\* process.nextTick(() => connectionStream.resume()) of _detach
Resume ==
  /\ resumePending /\ ~threw
  /\ LET w == [W EXCEPT !.resumePending = FALSE, !.flowing = TRUE]
     IN  IF impl = "copy-both" /\ w.sockBuf # <<>> /\ w.dataListeners > 0
         THEN Install(PgData([w EXCEPT !.sockBuf = <<>>], w.sockBuf))
         ELSE Install(w)

\* stream.Readable asks for data: _read()
ConsumerRead ==
  /\ impl = "copy-both" /\ ended = 0 /\ ~threw
  /\ ReadableLength(W) < HighWaterMark
  /\ Install(_read(W))

\* The consumer takes one chunk out of the stream.
ConsumerTake ==
  /\ taken < Len(pushed) /\ ~threw
  /\ Install([W EXCEPT !.taken = @ + 1])

\* The transport emits 'data' with the next n bytes into the pipe:
\* _transform of copy-to.js
ToData(n) ==
  /\ impl = "copy-to" /\ submitted /\ ~threw
  /\ sent + n <= Len(stream)
  /\ LET w == [W EXCEPT !.sent = @ + n]
     IN  IF piped THEN Install(_transform(w, SubSeq(stream, sent + 1, sent + n)))
         ELSE Install(w)

\* The caller writes a chunk: stream.Writable write()
UserWrite ==
  /\ impl = "copy-both" /\ ~ending /\ ~threw /\ userWrites < MaxWrites
  /\ LET w == [W EXCEPT !.userWrites = @ + 1]
         chunk == UserChunk(userWrites + 1)
     IN  IF writing \/ corked > 0
         THEN Install([w EXCEPT !.wbuf = Append(@, chunk)])
         ELSE Install(_write(w, chunk))

\* The caller ends its input: stream.Writable end(), which uncorks.
UserEnd ==
  /\ impl = "copy-both" /\ ~ending /\ ~threw
  /\ Install(uncork([W EXCEPT !.ending = TRUE]))

\* stream.Writable calls _final once every write has been acknowledged.
CallFinal ==
  /\ ending /\ ~finalCalled /\ ~writing /\ wbuf = <<>> /\ ~threw
  /\ Install(_final([W EXCEPT !.finalCalled = TRUE]))

RECURSIVE RunListeners(_, _)
RunListeners(w, ls) ==
  IF ls = <<>> \/ w.threw THEN w
  ELSE RunListeners(IF Head(ls).flush THEN flush(w, Head(ls).cb)
                    ELSE onwrite(w, Head(ls).cb),
                    Tail(ls))

\* 'drain' of the transport: its once-listeners run.
Drain ==
  /\ needDrain /\ ~threw
  /\ \E r \in 0..Unlimited :
       Install(RunListeners([W EXCEPT !.needDrain = FALSE, !.wroom = r,
                                      !.drainListeners = <<>>],
                            drainListeners))

Next ==
  \/ Submit \/ ToSubmit
  \/ \E n \in 1..Len(stream) : Deliver(n)
  \/ \E n \in 1..Len(stream) : ToData(n)
  \/ OnReadable \/ Resume \/ ConsumerRead \/ ConsumerTake

Spec == Init /\ [][Next]_vars

NextProtocol == Next \/ SecondSubmit

SpecProtocol == InitProtocol /\ [][NextProtocol]_vars

NextLength ==
  \/ Submit
  \/ \E n \in 1..Len(stream) : Deliver(n)
  \/ OnReadable \/ Resume \/ ConsumerRead \/ ConsumerTake

SpecLength == InitLength /\ [][NextLength]_vars

NextWrite ==
  \/ Submit
  \/ \E n \in 1..Len(stream) : Deliver(n)
  \/ OnReadable \/ Resume \/ ConsumerRead \/ ConsumerTake
  \/ UserWrite \/ UserEnd \/ CallFinal \/ Drain

SpecWrite == InitWrite /\ [][NextWrite]_vars

\* The states in which the transport has a next byte to deliver, in which a
\* 'readable' event is due, and in which the consumer, whose buffer is under
\* the high-water mark, has yet to signal its readiness.  In each of them the
\* step named after it is enabled and changes the state.
CanDeliver ==
  /\ impl = "copy-both" /\ submitted /\ ~threw /\ ~resumePending
  /\ sent + 1 <= Len(stream)
  /\ sent + 1 <= gate \/ ClientDone

CanOnReadable == readableListener /\ readablePending /\ ~threw

CanConsumerRead ==
  /\ impl = "copy-both" /\ ended = 0 /\ ~threw
  /\ ReadableLength(W) < HighWaterMark
  /\ ~_drained

\* The transport keeps delivering the stream and its events, the next tick
\* comes, and the consumer keeps taking a chunk and signalling readiness.
\* The last three conjuncts are weak fairness of Deliver, OnReadable and
\* ConsumerRead, written out ([]<>~ENABLED <<A>>_vars \/ []<><<A>>_vars) with
\* the predicates above in the place of ENABLED.
Fairness ==
  /\ WF_vars(Submit)
  /\ WF_vars(Resume)
  /\ WF_vars(ConsumerTake)
  /\ []<>~CanDeliver \/ []<><<\E n \in 1..Len(stream) : Deliver(n)>>_vars
  /\ []<>~CanOnReadable \/ []<><<OnReadable>>_vars
  /\ []<>~CanConsumerRead \/ []<><<ConsumerRead>>_vars

SpecFair == Init /\ [][Next]_vars /\ Fairness

-----------------------------------------------------------------------------
(* Properties.                                                             *)

IsPrefix(s, t) == Len(s) <= Len(t) /\ s = SubSeq(t, 1, Len(s))

\* The payloads of the CopyData messages of the server's stream, in order.
Expected == Payloads(Frames(stream))

\* The stream is a copy-start frame, CopyData frames and a CopyDone frame.
IsReference == stream = ReferenceStream[1]

\* The transport has delivered the whole stream and nothing of it is unread.
AllPulled == sent = Len(stream) /\ sockBuf = <<>>

C2_NoByteLoss ==
  impl = "copy-both" =>
     /\ detaches = 0 =>
          /\ consumed \o _buffer \o sockBuf = SubSeq(stream, 1, sent)
          /\ pgReceived = <<>>
     /\ detaches >= 1 =>
          /\ consumed \o pgReceived \o sockBuf = SubSeq(stream, 1, sent)
          /\ Len(consumed) + Len(pgReceived) = sent - Len(sockBuf)
          /\ _buffer = <<>>

\* _detach has run with unread bytes in the accumulator, bytes came after
\* it, and the original handler holds more than one message.
C2_Witness ==
  /\ impl = "copy-both" /\ detaches = 1 /\ consumed # <<>>
  /\ sent = Len(stream) /\ sockBuf = <<>> /\ flowing
  /\ Len(pgReceived) > Len(Error)

\* The offset in the stream of its first ErrorResponse message (the length
\* of the stream when it has none).
RECURSIVE ErrorOffset(_)
ErrorOffset(bytes) ==
  IF Len(bytes) < Byte1Len + Int32Len \/ bytes[1] = ErrorResponse THEN 0
  ELSE LET size == Byte1Len + ReadUInt32BE(SubSeq(bytes, 2, 5))
       IN  size + ErrorOffset(Drop(bytes, size))

HasError == ErrorOffset(stream) < Len(stream)

\* C3 (ErrorResponse interception): in copy-both, on a stream with an
\* ErrorResponse the decoder never consumes the ErrorResponse code byte or
\* any byte after it; as soon as it has pulled that byte from the transport
\* it has detached; what the original handler then holds starts with the
\* code byte and is every byte that followed it; and when the ErrorResponse
\* directly follows the copy-start frame nothing was forwarded.
C3_ErrorInterception ==
  (impl = "copy-both" /\ HasError) =>
     /\ IsPrefix(consumed, SubSeq(stream, 1, ErrorOffset(stream)))
     /\ (sent - Len(sockBuf) > ErrorOffset(stream)) => detaches = 1
     /\ detaches <= 1
     /\ detaches = 1 =>
          /\ consumed = SubSeq(stream, 1, ErrorOffset(stream))
          /\ pgReceived # <<>> /\ pgReceived[1] = ErrorResponse
          /\ pgReceived \o sockBuf = SubSeq(stream, ErrorOffset(stream) + 1, sent)
     /\ (stream = Start \o Error \o Ready) => pushed = <<>>

\* The ErrorResponse came in one chunk with bytes of the next message, right
\* after the copy-start frame, and the decoder detached on it.
C3_Witness ==
  /\ impl = "copy-both" /\ HasError /\ detaches = 1
  /\ stream = Start \o Error \o Ready
  /\ Len(pgReceived) > Len(Error) /\ resumePending /\ pushed = <<>>

\* The chunks the caller has written so far, in order.
UserChunks == [i \in 1..userWrites |-> UserChunk(i)]

\* The messages the client has written to the transport.
WrittenFrames == Frames(written)

\* The payloads of the CopyData messages among them.
WrittenPayloads == Payloads(WrittenFrames)

\* C7 (completion gate): the callback given to _final is invoked at most
\* once, never before handleReadyForQuery has run (so not when the local
\* CopyDone write completes), and exactly once when handleReadyForQuery has
\* run for a transfer whose _final has run.
C7_CompletionGate ==
  /\ finalCbCalls <= 1
  /\ finalCbCalls = 1 => (rfqHandled = 1 /\ finalCalled /\ ClientDone)
  /\ (cb_flush /\ rfqHandled = 0) => finalCbCalls = 0
  /\ (cb_flush /\ rfqHandled >= 1) => finalCbCalls = 1

\* The caller wrote and ended, CopyDone went out, the server answered with
\* ReadyForQuery, and the callback was invoked.
C7_Witness ==
  /\ finalCbCalls = 1 /\ rfqHandled = 1 /\ userWrites >= 1 /\ errors = 0

\* The transfer is complete: the callback of _final has been invoked.
Completed == finalCbCalls = 1

\* C4 (acknowledgment gate): while the copy-start acknowledgment has not
\* been decoded no CopyData frame has been written to the transport; the
\* CopyData frames written are the caller's chunks in the caller's order;
\* and every chunk the caller wrote before the acknowledgment has been
\* written by the time the transfer is complete.
C4_AckGate ==
  /\ ~_gotCopyInResponse => WrittenPayloads = <<>>
  /\ IsPrefix(WrittenPayloads, UserChunks)
  /\ (Completed /\ _gotCopyInResponse) => Len(WrittenPayloads) >= ackedAt

\* C5 (termination handshake order): once _final has run, every chunk that
\* was in the pending write queue has been written as a CopyData frame
\* before the CopyDone frame, the queue is empty, there is exactly one
\* CopyDone frame (code and length 4, no payload), and it is the last frame.
C5_HandshakeOrder ==
  LET fs == WrittenFrames
      dones == {i \in 1..Len(fs) : fs[i].code = CopyDone}
  IN  /\ Cardinality(dones) <= 1
      /\ \A i \in dones : i = Len(fs) /\ fs[i].payload = <<>>
      /\ cb_flush => /\ Cardinality(dones) = 1
                     /\ chunks = <<>>
                     /\ WrittenPayloads = UserChunks

\* C6 (exactly-once FIFO writes under backpressure): what was written to the
\* transport is whole frames (a 5-byte header with the length of the chunk
\* plus 4, then the chunk); the CopyData frames are the caller's chunks, each
\* once, in the caller's order; and when the transfer is complete no chunk
\* is left in the queue and all of them have been written.
C6_ExactlyOnceFifo ==
  /\ written = Concat([i \in 1..Len(WrittenFrames) |->
                         Frame(WrittenFrames[i].code, WrittenFrames[i].payload)])
  /\ IsPrefix(WrittenPayloads, UserChunks)
  /\ Completed => (chunks = <<>> /\ WrittenPayloads = UserChunks)

NonEmpty(ss) == SelectSeq(ss, LAMBDA x : x # <<>>)

\* C10, as stated (row mode preserves frame boundaries): in row mode the
\* pushes are, one for one and in order, the whole payloads of the CopyData
\* frames decoded so far.
C10_OnePushPerFrame ==
  (impl = "copy-both" /\ rowMode) => pushed = Payloads(Frames(consumed))

\* C10, amended: in row mode the pushes are, one for one and in order, the
\* whole payloads of the CopyData frames decoded so far whose payload is not
\* empty (a CopyData frame with an empty payload is not pushed).
C10_OnePushPerNonEmptyFrame ==
  (impl = "copy-both" /\ rowMode) => pushed = NonEmpty(Payloads(Frames(consumed)))

\* A row-mode transfer of two rows that ended, each row one push.
C10_Witness ==
  /\ impl = "copy-both" /\ rowMode /\ IsReference /\ ended = 1
  /\ pushed = << <<1, 2>>, <<3>> >>

\* The transfers of copy-both that run to their CopyDone frame.
RunsToDone == impl = "copy-both" /\ ~HasError

\* Every payload has been forwarded and taken, and the end was signalled.
AllForwarded ==
  /\ ended = 1 /\ taken = Len(pushed)
  /\ Concat(pushed) = Concat(Expected)
  /\ rowMode => pushed = NonEmpty(Expected)

\* C9 (backpressure liveness): with a transport that keeps delivering and a
\* consumer that keeps taking one chunk and signalling readiness, a copy-both
\* transfer forwards at every moment a prefix of the CopyData payloads in
\* arrival order, eventually has forwarded all of them, each once, and
\* signalled the end of the stream, and bytes waiting in the transport are
\* always eventually pulled.
C9_BackpressureLiveness ==
  /\ [](RunsToDone => IsPrefix(Concat(pushed), Concat(Expected)))
  /\ <>(RunsToDone => AllForwarded)
  /\ (RunsToDone /\ sockBuf # <<>>) ~> (sockBuf = <<>>)

\* A transfer that met backpressure (a frame was pushed after a push had
\* returned false) and still forwarded everything and ended.
C9_Witness ==
  /\ RunsToDone /\ AllForwarded /\ bpPushes /\ sent = Len(stream)

\* The messages of the server's stream that are informational.
IsInformational(c) == c \in {ParameterStatus, NoticeResponse, NotificationResponse}

\* The payload bytes of the informational messages of the stream (no other
\* message of the streams holds one of them).
InformationalBytes ==
  LET fs == Frames(stream)
  IN  UNION { {fs[i].payload[j] : j \in 1..Len(fs[i].payload)} :
              i \in {k \in 1..Len(fs) : IsInformational(fs[k].code)} }

\* The stream holds one copy-start message, rows and informational messages,
\* and its end.
IsInformationalStream ==
  \A i \in 2..Len(Frames(stream)) :
     \/ Frames(stream)[i].code \in {CopyData, CopyDone}
     \/ IsInformational(Frames(stream)[i].code)

\* C11 (informational frames are discarded): no payload byte of a
\* ParameterStatus, NoticeResponse or NotificationResponse message is ever
\* in a chunk pushed to the consumer, in copy-both and in copy-to, and in
\* copy-to on a stream of rows and informational messages rowCount is never
\* more than the number of CopyData messages.
C11_InformationalDiscarded ==
  /\ \A i \in 1..Len(pushed) : \A j \in 1..Len(pushed[i]) :
        pushed[i][j] \notin InformationalBytes
  /\ (impl = "copy-to" /\ IsInformationalStream) => rowCount <= Len(Expected)

\* The places in the stream of its copy-start messages, and the offset at
\* which the second of them begins (the length of the stream without one).
StartFrames == {i \in 1..Len(Frames(stream)) : Frames(stream)[i].code = StartCode}

HasSecondStart == Cardinality(StartFrames) >= 2

SecondStartOffset ==
  IF ~HasSecondStart THEN Len(stream)
  ELSE LET k == CHOOSE i \in StartFrames :
                   Cardinality({j \in StartFrames : j < i}) = 1
           fs == Frames(stream)
       IN  Len(Concat([i \in 1..(k - 1) |-> Frame(fs[i].code, fs[i].payload)]))

\* The stream holds copy-start messages, rows, informational messages and
\* its end: no message that is itself an error.
IsStartStream ==
  \A i \in 1..Len(Frames(stream)) :
     \/ Frames(stream)[i].code \in {StartCode, CopyData, CopyDone}
     \/ IsInformational(Frames(stream)[i].code)

\* C12 (start-frame handling): on a stream without ErrorResponse or unknown
\* message, however it is split, no error has been raised on the transfer
\* while no byte of a second copy-start message has arrived, and when the
\* transfer has ended one error has been raised if the stream held a second
\* copy-start message and none if it did not.
C12_StartFrame ==
  IsStartStream =>
     /\ sent <= SecondStartOffset => errors = 0
     /\ ended = 1 => errors = (IF HasSecondStart THEN 1 ELSE 0)

\* The codes a copy transfer knows.
IsKnown(c) ==
  \/ c \in {CopyOutResponse, CopyBothResponse, CopyData, ErrorResponse, CopyDone}
  \/ IsInformational(c)

\* The places in the stream of its messages of an unknown code that come
\* before any ErrorResponse or CopyDone, and the offset at which the first of
\* them ends.
UnknownFrames ==
  LET fs == Frames(stream)
  IN  {i \in 1..Len(fs) :
         /\ ~IsKnown(fs[i].code)
         /\ \A j \in 1..(i - 1) : fs[j].code \notin {ErrorResponse, CopyDone}}

UnknownEnd ==
  LET k == CHOOSE i \in UnknownFrames : \A j \in UnknownFrames : i <= j
      fs == Frames(stream)
  IN  Len(Concat([i \in 1..k |-> Frame(fs[i].code, fs[i].payload)]))

\* The bytes of the stream the decoder has gone through.
Decoded == IF impl = "copy-both" THEN Len(consumed) ELSE sent

\* C13 (unexpected frame codes): on a stream with a message of an unknown
\* code, once the decoder has gone through that message an error has been
\* raised on the transfer, and the transfer never ends (end-of-stream
\* signalled to the consumer) without an error: the message is not taken
\* for a clean end.
C13_UnexpectedCode ==
  UnknownFrames # {} =>
     /\ Decoded >= UnknownEnd => errors >= 1
     /\ ended = 1 => errors >= 1

\* What _attach and _detach change on the transport and keep of it.
Registration == << _pgDataHandler, readableListener, flowing, dataListeners >>

\* C14 (exclusive attach): the submit of a copy-both transfer attaches
\* (captures the handler, removes it, pauses, registers its readable
\* handler) when the transport has exactly one 'data' listener and throws,
\* changing nothing, when it has any other number; a second submit while the
\* transfer is attached fails and leaves the captured handler, the readable
\* registration, the paused state and the listeners as they were; and the
\* readable handler is never registered together with a 'data' listener.
C14_ExclusiveAttach ==
  [][ /\ (impl = "copy-both" /\ ~submitted /\ submitted') =>
           IF dataListeners = 1
           THEN /\ ~threw' /\ _pgDataHandler' /\ readableListener'
                /\ ~flowing' /\ dataListeners' = 0
           ELSE threw' /\ UNCHANGED Registration
      /\ second' # second =>
           second' = "failed" /\ UNCHANGED << Registration, sockBuf, threw >>
      /\ readableListener' => dataListeners' = 0 ]_vars

\* A second submit failed while the transfer was attached with bytes of the
\* stream waiting in the paused transport.
C14_Witness ==
  /\ second = "failed" /\ readableListener /\ ~flowing /\ sockBuf # <<>>
  /\ _pgDataHandler /\ ~threw

\* The transfer of copy-both has left: by a terminal frame, by the detach on
\* an ErrorResponse, or by handleError.
Exited == impl = "copy-both" /\ (ended >= 1 \/ detaches >= 1 \/ errors >= 1)

\* C15 (buffers are released on every exit path): once a copy-both
\* transfer has left, by a terminal frame, by the detach on an ErrorResponse
\* or by handleError, the byte accumulator, the CopyData buffer and the
\* pending write queue are all empty.
C15_BuffersReleased ==
  Exited => (_buffer = <<>> /\ _copyDataChunks = <<>> /\ chunks = <<>>)

\* The messages that come before the first ErrorResponse or CopyDone.
RECURSIVE BeforeTerminal(_)
BeforeTerminal(fs) ==
  IF fs = <<>> \/ Head(fs).code \in {ErrorResponse, CopyDone} THEN <<>>
  ELSE <<Head(fs)>> \o BeforeTerminal(Tail(fs))

\* C16 (no decoded CopyData is dropped at the end of a transfer): when a
\* copy-both transfer has detached, on a terminal frame or on an
\* ErrorResponse, the bytes pushed to the consumer are the payload bytes of
\* the CopyData messages the decoder took from the accumulator, each once
\* and in order; when a copy-to transfer has ended they are the payload
\* bytes of the CopyData messages before the ErrorResponse or CopyDone.
C16_NoCopyDataDropped ==
  /\ (impl = "copy-both" /\ detaches >= 1) =>
        Concat(pushed) = Concat(Payloads(Frames(consumed)))
  /\ (impl = "copy-to" /\ ended >= 1) =>
        Concat(pushed) = Concat(Payloads(BeforeTerminal(Frames(stream))))

\* What _parse changes of the decoder, and what it forwards.
DecoderState ==
  << consumed, _buffer, _state, _code, _unreadMessageContentLength, pushed, ended >>

\* C17 (no transport access after detach): in every step taken after the
\* _detach of a copy-both transfer, whichever handler runs (_read, the pg
\* handler, handleError, the resume), the decoder takes no byte and pushes
\* nothing (_parse does not run), the transport holds no byte for it to
\* read, before and after the step, and the bytes the transport delivers in
\* the step are appended to what the original handler has received.
C17_NoAccessAfterDetach ==
  [][ (impl = "copy-both" /\ detaches >= 1) =>
         /\ UNCHANGED DecoderState
         /\ sockBuf = <<>> /\ sockBuf' = <<>>
         /\ detaches' = detaches
         /\ pgReceived' = pgReceived \o SubSeq(stream, sent + 1, sent') ]_vars

\* After the detach on an ErrorResponse the consumer has called _read again
\* (_drained is true), the transport flows, and the rest of the stream has
\* reached the original handler.
C17_Witness ==
  /\ impl = "copy-both" /\ HasError /\ detaches = 1 /\ _drained /\ flowing
  /\ sent = Len(stream) /\ consumed # <<>>
  /\ pgReceived = SubSeq(stream, ErrorOffset(stream) + 1, Len(stream))

\* C18 (write suspension under transport backpressure): once a write to the
\* transport has returned false, no CopyData frame and no CopyDone frame is
\* begun on the transport before the transport has emitted 'drain', whichever
\* of _write, _writev, _startCopyIn and _final does the flushing.
C18_WritesSuspended == ~bpWrites

\* C19 (write acknowledgment): the callback of a _write/_writev call is
\* invoked at most once, and never while a chunk of that call is still in the
\* pending queue, not yet handed to the transport.  (The claim's progress
\* half, that the callback is eventually invoked, is not part of this
\* formula.)
C19_WriteAcknowledged ==
  /\ \A id \in 1..Len(cbInvoked) : cbInvoked[id] <= 1
  /\ ~cbEarly

\* C20 (decoder progress and termination): every call of _parse returns
\* (no iteration of its loop leaves everything as it was), the
\* remaining-payload counter is never negative, and between the calls the
\* accumulator holds fewer bytes than the field the decoder waits for: the
\* code byte, the four length bytes, or the rest of the payload.
C20_DecoderProgress ==
  /\ ~hung
  /\ _unreadMessageContentLength >= 0
  /\ _state = PG_CODE => Len(_buffer) < 1
  /\ _state = PG_LENGTH => Len(_buffer) < 4
  /\ _state = PG_MESSAGE => Len(_buffer) < _unreadMessageContentLength

=============================================================================
